---------------------------- MODULE Spec2Model ----------------------------
(***************************************************************************)
(* Model of the ortt diagnostic client (src/main.py, src/formatter.py,     *)
(* src/utility.py): the output parsers, the probe runner run_diagnostic    *)
(* and the DiagnosticClient session (connect / register_client /           *)
(* message_handler / process_message / send_result).                       *)
(*                                                                         *)
(* Text is a sequence of symbols.  One-character strings are characters;   *)
(* the few longer symbols stand for fixed literal runs of the source:      *)
(*   "(" digits "%_poter)"   r"\((\d+)% <cp866 'poter''>\)"  main.py:121   *)
(*   "Minimalnoe_=_"         cp866 "Minimal'noe = "          main.py:122   *)
(*   "Maksimalnoe_=_"        cp866 "Maksimal'noe = "         main.py:123   *)
(*   "Srednee_=_"            cp866 "Srednee = "              main.py:124   *)
(*   "msek"                  cp866 "msek"                    main.py:122   *)
(* The patterns in the source are the bytes of the Russian (cp866) console *)
(* words decoded as UTF-8 with replacement, which is exactly what          *)
(* run_diagnostic's decode('utf-8', errors='replace') makes of the output  *)
(* of the Russian Windows ping: Minimal'noe is the minimum, Maksimal'noe   *)
(* the maximum and Srednee the mean.                                       *)
(***************************************************************************)
EXTENDS Integers, Sequences, FiniteSets, TLC

VARIABLES
    pc,          \* position of the session coroutine: the await it is at
    is_running,  \* DiagnosticClient.is_running
    config,      \* ClientConfig: agreement_id, city
    conn,        \* number of the connection self.websocket refers to (0: none yet)
    attempts,    \* websockets.connect calls made so far
    open,        \* whether the transport of connection conn is open
    fault,       \* what recv() and send() raise on the transport once it has
                 \* failed ("none" while it has not)
    inbox,       \* frames delivered by the server and not yet returned by recv()
    nframes,     \* frames the server has sent so far
    handled,     \* frames recv() has returned so far
    sent,        \* messages the client has written, in order
    received,    \* recognized commands dispatched so far, in order, each with
                 \* its connection and the number of the frame that carried it
    dropped,     \* commands whose send_result raised
    cur,         \* process_message's locals: command, target
    proc,        \* what the external process did in the current run_diagnostic
    run,         \* outcome of the current run_diagnostic call
    lost,        \* a connection loss happened since the last connection attempt
    slept,       \* time units slept since that loss
    log,         \* last warning or error logged, by the session, by
                 \* run_diagnostic or by a parser ("start": none yet)
    report,      \* function harness: the input drawn (what the latency probe
                 \* measured; a probe call; a trace; an agreement id)
    output,      \* function harness: the text handed to the function
    parsed,      \* function harness: what the function returned
    pstage       \* function harness: "input" | "done" ("idle" in the session)

vars == <<pc, is_running, config, fault, conn, attempts, open, inbox, nframes, handled,
          sent, received, dropped, cur, proc, run, lost, slept, log,
          report, output, parsed, pstage>>

sessionVars == <<pc, is_running, config, fault, conn, attempts, open, inbox, nframes,
                 handled, sent, received, dropped, cur, proc, run, lost, slept, log>>

parserVars == <<report, output, parsed, pstage>>

-----------------------------------------------------------------------------
(* Python values *)

\* None, as returned by re.search, parse_ping_output and parse_tracert_output.
None == <<>>

\* A value that is not None (a match object, a dict, a list).
Some(x) == <<x>>

\* None where the other values are strings (dict.get on a missing key).
NoneStr == "None"

DigitChars == <<"0", "1", "2", "3", "4", "5", "6", "7", "8", "9">>

Digits == {DigitChars[k] : k \in 1..10}

DigitVal(c) == (CHOOSE k \in 1..10 : DigitChars[k] = c) - 1

\* int(s) of a string of decimal digits.
RECURSIVE int(_)
int(s) == IF s = <<>> THEN 0 ELSE 10 * int(SubSeq(s, 1, Len(s) - 1)) + DigitVal(s[Len(s)])

\* str(n) of a natural number.
RECURSIVE str(_)
str(n) == IF n < 10 THEN <<DigitChars[n + 1]>> ELSE str(n \div 10) \o <<DigitChars[(n % 10) + 1]>>

\* s.startswith(p)
startswith(s, p) == Len(p) <= Len(s) /\ SubSeq(s, 1, Len(p)) = p

\* Last index of the maximal run of characters of class cls that starts at i
\* (i - 1 when s[i] is not in cls or i is past the end).
RECURSIVE RunEnd(_, _, _)
RunEnd(s, i, cls) == IF i <= Len(s) /\ s[i] \in cls THEN RunEnd(s, i + 1, cls) ELSE i - 1

\* bytes.decode('utf-8', errors='replace'): a byte that is not valid UTF-8
\* becomes U+FFFD, every other symbol is kept.  It never raises.
InvalidBytes == {"xFF"}

decode(bytes) == [i \in 1..Len(bytes) |-> IF bytes[i] \in InvalidBytes THEN "uFFFD" ELSE bytes[i]]

-----------------------------------------------------------------------------
(* Output Parser: parse_ping_output *)

\* Whether the pattern  pre (\d+) post  matches at position i of output.
\* \d+ is greedy and neither post starts with a digit, so the group is the
\* maximal digit run after pre.
PingMatchAt(pre, post, text, i) ==
    LET a == i + Len(pre)
        b == RunEnd(text, a, Digits)
    IN  /\ a - 1 <= Len(text)
        /\ SubSeq(text, i, a - 1) = pre
        /\ b >= a
        /\ b + Len(post) <= Len(text)
        /\ SubSeq(text, b + 1, b + Len(post)) = post

\* re.search(pre (\d+) post, output): the leftmost match, as its group(1), or None.
re_search(pre, post, text) ==
    LET starts == {i \in 1..Len(text) : PingMatchAt(pre, post, text, i)}
    IN  IF starts = {} THEN None
        ELSE LET i == CHOOSE j \in starts : \A k \in starts : j <= k
                 a == i + Len(pre)
             IN  Some(SubSeq(text, a, RunEnd(text, a, Digits)))

packet_loss_match(text) == re_search(<<"(">>, <<"%_poter)">>, text)

min_rtt_match(text) == re_search(<<"Minimalnoe_=_">>, <<"msek">>, text)

\* main.py:123 binds the Maksimal'noe (maximum) pattern to avg_rtt_match ...
avg_rtt_match(text) == re_search(<<"Maksimalnoe_=_">>, <<" ", "msek">>, text)

\* ... and main.py:124 binds the Srednee (mean) pattern to max_rtt_match.
max_rtt_match(text) == re_search(<<"Srednee_=_">>, <<" ", "msek">>, text)

\* Variant with a plausible bug: the packet-loss match is not required and
\* defaults to 0.
parse_ping_output_partial(text) ==
    IF /\ min_rtt_match(text) # None
       /\ avg_rtt_match(text) # None
       /\ max_rtt_match(text) # None
    THEN Some([packet_loss |-> IF packet_loss_match(text) # None
                               THEN int(packet_loss_match(text)[1]) ELSE 0,
               min_rtt |-> int(min_rtt_match(text)[1]),
               avg_rtt |-> int(avg_rtt_match(text)[1]),
               max_rtt |-> int(max_rtt_match(text)[1])])
    ELSE None

parse_ping_output(text) ==
    IF /\ packet_loss_match(text) # None
       /\ min_rtt_match(text) # None
       /\ avg_rtt_match(text) # None
       /\ max_rtt_match(text) # None
    THEN Some([packet_loss |-> int(packet_loss_match(text)[1]),
               min_rtt |-> int(min_rtt_match(text)[1]),
               avg_rtt |-> int(avg_rtt_match(text)[1]),
               max_rtt |-> int(max_rtt_match(text)[1])])
    ELSE None

-----------------------------------------------------------------------------
(* Output Parser: parse_tracert_output *)

\* \s of the regular expressions, over the model's alphabet.
Whitespace == {" ", "\n"}

\* [\dms* ] of the hop pattern.
RttClass == Digits \cup {"m", "s", "*", " "}

\* The letters of the model's alphabet.
Letters == {"m", "s", "a", "b", "h"}

\* [\w.\-] of the hop pattern.
AddrClass == Digits \cup Letters \cup {"_", ".", "-"}

\* First index >= i that is not in cls (Len(s) + 1 when there is none).
SkipWhile(s, i, cls) == RunEnd(s, i, cls) + 1

\* First index >= i that holds a line break (Len(s) + 1 when there is none).
RECURSIVE LineEnd(_, _)
LineEnd(s, i) == IF i <= Len(s) /\ s[i] # "\n" THEN LineEnd(s, i + 1) ELSE i

\* Last index <= i that is not whitespace (0 when there is none).
RECURSIVE LastNonSpace(_, _)
LastNonSpace(s, i) == IF i >= 1 /\ s[i] \in Whitespace THEN LastNonSpace(s, i - 1) ELSE i

\* str.strip()
strip(s) == SubSeq(s, SkipWhile(s, 1, Whitespace), LastNonSpace(s, Len(s)))

\* str.splitlines(): no line for a trailing line break, none for the empty string.
RECURSIVE splitlines(_)
splitlines(s) ==
    IF s = <<>> THEN <<>>
    ELSE LET k == LineEnd(s, 1)
         IN  <<SubSeq(s, 1, k - 1)>> \o splitlines(SubSeq(s, k + 1, Len(s)))

\* str.split(): the maximal runs of non-whitespace characters.
RECURSIVE split(_)
split(s) ==
    LET a == SkipWhile(s, 1, Whitespace)
        b == LastNonSpace(s, Len(s))
    IN  IF a > Len(s) THEN <<>>
        ELSE LET t == SubSeq(s, a, b)
                 e == CHOOSE j \in 1..Len(t) :
                          /\ \A i \in 1..j : t[i] \notin Whitespace
                          /\ (j = Len(t) \/ t[j + 1] \in Whitespace)
             IN  <<SubSeq(t, 1, e)>> \o split(SubSeq(t, e + 1, Len(t)))

\* str.isdigit()
isdigit(r) == r # <<>> /\ \A i \in 1..Len(r) : r[i] \in Digits

\* re.match(r"^\s*(\d+)\s+([\dms* ]+)\s+([\w.\-]+)?", line): None, or the three
\* groups (group 3 is None when it did not take part).  Every quantifier is
\* greedy, so among the ways to match the engine returns the one with the
\* longest first \s+, then the longest group 2, then the longest second \s+.
hop_match(line) ==
    LET a == RunEnd(line, 1, Whitespace)
        b == RunEnd(line, a + 1, Digits)
        cands == UNION {UNION {{<<c, e, f>> : f \in (e + 1)..RunEnd(line, e + 1, Whitespace)} :
                                   e \in (c + 1)..RunEnd(line, c + 1, RttClass)} :
                            c \in (b + 1)..RunEnd(line, b + 1, Whitespace)}
        Better(t, u) == \/ t[1] > u[1]
                        \/ t[1] = u[1] /\ t[2] > u[2]
                        \/ t[1] = u[1] /\ t[2] = u[2] /\ t[3] >= u[3]
    IN  IF b < a + 1 \/ cands = {} THEN None
        ELSE LET m == CHOOSE t \in cands : \A u \in cands : Better(t, u)
                 g == RunEnd(line, m[3] + 1, AddrClass)
             IN  Some([g1 |-> SubSeq(line, a + 1, b),
                       g2 |-> SubSeq(line, m[1] + 1, m[2]),
                       g3 |-> IF g >= m[3] + 1 THEN Some(SubSeq(line, m[3] + 1, g))
                                               ELSE None])

\* Python numbers and strings in a hop record, tagged with their type.
PyInt(n) == <<"int", n>>

RECURSIVE GCD(_, _)
GCD(x, y) == IF y = 0 THEN x ELSE GCD(y, x % y)

\* The float num / den, kept exact as a reduced fraction.
PyFloat(num, den) == <<"float", num \div GCD(num, den), den \div GCD(num, den)>>

PyStr(s) == <<"str", s>>

\* The wildcard marker "*".
Wildcard == <<"*">>

RECURSIVE sum(_)
sum(xs) == IF xs = <<>> THEN 0 ELSE xs[1] + sum(Tail(xs))

min(xs) == CHOOSE x \in {xs[i] : i \in 1..Len(xs)} : \A i \in 1..Len(xs) : x <= xs[i]

max(xs) == CHOOSE x \in {xs[i] : i \in 1..Len(xs)} : \A i \in 1..Len(xs) : x >= xs[i]

\* [f(x) for x in xs if keep(x)]
RECURSIVE rtts_of(_)
rtts_of(tokens) ==
    IF tokens = <<>> THEN <<>>
    ELSE (IF isdigit(tokens[1]) THEN <<int(tokens[1])>> ELSE <<>>) \o rtts_of(Tail(tokens))

\* Variant with a plausible bug: the mean is taken by integer division.
hop_of_floor_mean(m) ==
    LET hop_num == int(m.g1)
        rtt_info == strip(m.g2)
        ip_address == IF m.g3 # None THEN m.g3[1] ELSE Wildcard
        rtts == rtts_of(split(rtt_info))
    IN  IF rtts # <<>>
        THEN [hop |-> hop_num, ip |-> ip_address,
              min_rtt |-> PyInt(min(rtts)),
              avg_rtt |-> PyFloat(sum(rtts) \div Len(rtts), 1),
              max_rtt |-> PyInt(max(rtts))]
        ELSE [hop |-> hop_num, ip |-> ip_address,
              min_rtt |-> PyStr(Wildcard),
              avg_rtt |-> PyStr(Wildcard),
              max_rtt |-> PyStr(Wildcard)]

\* The dict appended for one matched line (main.py:150-171).
hop_of(m) ==
    LET hop_num == int(m.g1)
        rtt_info == strip(m.g2)
        ip_address == IF m.g3 # None THEN m.g3[1] ELSE Wildcard
        rtts == rtts_of(split(rtt_info))
    IN  IF rtts # <<>>
        THEN [hop |-> hop_num, ip |-> ip_address,
              min_rtt |-> PyInt(min(rtts)),
              avg_rtt |-> PyFloat(sum(rtts), Len(rtts)),
              max_rtt |-> PyInt(max(rtts))]
        ELSE [hop |-> hop_num, ip |-> ip_address,
              min_rtt |-> PyStr(Wildcard),
              avg_rtt |-> PyStr(Wildcard),
              max_rtt |-> PyStr(Wildcard)]

\* The loop over data_lines (main.py:147-171).
RECURSIVE hops_of(_)
hops_of(data_lines) ==
    IF data_lines = <<>> THEN <<>>
    ELSE (IF hop_match(data_lines[1]) # None
          THEN <<hop_of(hop_match(data_lines[1])[1])>> ELSE <<>>)
         \o hops_of(Tail(data_lines))

\* Nothing in the try block raises on a str the model can build, so the
\* except branch (return None) is not taken.
parse_tracert_output(text) ==
    LET lines == splitlines(strip(text))
        data_lines == SubSeq(lines, 4, Len(lines))
    IN  Some(hops_of(data_lines))

-----------------------------------------------------------------------------
(* Configuration: the city of an agreement id *)

\* CITY_MAPPING, in the order of the dict literal: <<prefix, city>>.  The city
\* names are transliterated.
CITY_MAPPING == <<
    <<<<"2", "2">>, "Barnaul">>,
    <<<<"3", "2">>, "Bryansk">>,
    <<<<"3", "4">>, "Volga">>,
    <<<<"3", "6">>, "Voronezh">>,
    <<<<"6", "6">>, "Ekaterinburg">>,
    <<<<"1", "8">>, "Izhevsk">>,
    <<<<"3", "8">>, "Irkutsk">>,
    <<<<"1", "2">>, "Yoshkar-Ola">>,
    <<<<"1", "6", "0">>, "Kazan">>,
    <<<<"4", "3">>, "Kirov">>,
    <<<<"2", "3">>, "Krasnodar">>,
    <<<<"2", "4">>, "Krasnoyarsk">>,
    <<<<"4", "5">>, "Kurgan">>,
    <<<<"4", "6">>, "Kursk">>,
    <<<<"4", "8">>, "Lipetsk">>,
    <<<<"2", "7">>, "Magnitogorsk">>,
    <<<<"4", "8", "1">>, "Michurinsk">>,
    <<<<"7", "7">>, "Moskva">>,
    <<<<"1", "6", "1">>, "Naberezhnye Chelny">>,
    <<<<"1", "6", "2">>, "Nizhnekamsk">>,
    <<<<"5", "2">>, "Nizhniy Novgorod">>,
    <<<<"5", "4">>, "Novosibirsk">>,
    <<<<"5", "5">>, "Omsk">>,
    <<<<"5", "6">>, "Orenburg">>,
    <<<<"5", "8">>, "Penza">>,
    <<<<"5", "9">>, "Perm">>,
    <<<<"6", "1">>, "Rostov-na-Donu">>,
    <<<<"6", "2">>, "Ryazan">>,
    <<<<"6", "3">>, "Samara">>,
    <<<<"7", "8">>, "Sankt-Peterburg">>,
    <<<<"6", "4">>, "Saratov">>,
    <<<<"3", "0">>, "Selenginsk">>,
    <<<<"6", "9">>, "Tver">>,
    <<<<"7", "0">>, "Tomsk">>,
    <<<<"7", "1">>, "Tula">>,
    <<<<"7", "2">>, "Tyumen">>,
    <<<<"3", "0", "3">>, "Ulan-Ude">>,
    <<<<"7", "3">>, "Ulyanovsk">>,
    <<<<"1", "0">>, "Ufa">>,
    <<<<"2", "1">>, "Cheboksary">>,
    <<<<"1", "7">>, "Chelyabinsk">>,
    <<<<"7", "6">>, "Yaroslavl">> >>

\* Variant with a plausible bug: the table is searched in the order of the
\* dict literal, without the sort by prefix length.
get_city_from_agreement_id_unsorted(agreement_id) ==
    LET hits == {i \in 1..Len(CITY_MAPPING) : startswith(agreement_id, CITY_MAPPING[i][1])}
    IN  IF hits = {} THEN "Undefined"
        ELSE CITY_MAPPING[CHOOSE j \in hits : \A k \in hits : j <= k][2]

\* sorted(CITY_MAPPING.items(), key=len of the prefix, reverse=True) and the
\* first prefix the id starts with: the sort is stable, so the winner is the
\* first entry, in dict order, among the matching entries of greatest length.
get_city_from_agreement_id(agreement_id) ==
    LET hits == {i \in 1..Len(CITY_MAPPING) : startswith(agreement_id, CITY_MAPPING[i][1])}
    IN  IF hits = {} THEN "Undefined"
        ELSE LET i == CHOOSE j \in hits : \A k \in hits :
                          \/ Len(CITY_MAPPING[j][1]) > Len(CITY_MAPPING[k][1])
                          \/ Len(CITY_MAPPING[j][1]) = Len(CITY_MAPPING[k][1]) /\ j <= k
             IN  CITY_MAPPING[i][2]

-----------------------------------------------------------------------------
(* Probe Runner: run_diagnostic *)

\* json.dumps of a dict and of a list: the text opens with "{" or "[", and the
\* members stand between the brackets.
json_dumps_dict(d) == <<"{", d, "}">>

json_dumps_list(l) == <<"[", l, "]">>

\* f"Error: {text}"
ErrorStr(text) == <<"Error:", " ">> \o text

\* result.startswith("Error:")
IsErrorStr(s) == Len(s) >= 1 /\ s[1] = "Error:"

\* What one run of the external process does: whether create_subprocess_exec
\* and communicate() return ("ok") or raise (the exception's text), and the
\* bytes the process wrote.
ProcOutcome(launch, communicate, stdout, stderr) ==
    [launch |-> launch, communicate |-> communicate, stdout |-> stdout, stderr |-> stderr]

\* The value run_diagnostic returns, with what it did on the way: whether the
\* process was started, the parser call it made (None when it made none), and
\* the last warning or error it or the parser logged (NoneStr when none).
Returned(launched, parser, logged, result) ==
    [raised |-> FALSE, launched |-> launched, parser |-> parser, logged |-> logged,
     result |-> result]

ParserCall(name, arg) == Some([name |-> name, arg |-> arg])

\* main.py:201-212: the decoded standard-output goes to the parser of the
\* command kind ("ping", or else the route-trace parser).
\*   main.py:203  "if ping_stats" is true of a dict with its four keys;
\*   main.py:209  "if tracert_data" is true of a list that is not empty;
\*   main.py:134  parse_ping_output logs a warning when it returns None.
run_parse(command, out_decoded) ==
    IF command = "ping"
    THEN LET ping_stats == parse_ping_output(out_decoded)
         IN  Returned(TRUE, ParserCall("parse_ping_output", out_decoded),
                      IF ping_stats # None THEN NoneStr ELSE "ping parse warning",
                      IF ping_stats # None
                      THEN json_dumps_dict(ping_stats[1])
                      ELSE ErrorStr(<<"Could not parse ping output">>))
    ELSE LET tracert_data == parse_tracert_output(out_decoded)
         IN  Returned(TRUE, ParserCall("parse_tracert_output", out_decoded),
                      NoneStr,
                      IF tracert_data # None /\ tracert_data[1] # <<>>
                      THEN json_dumps_list(tracert_data[1])
                      ELSE ErrorStr(<<"Could not parse tracert output">>))

\* Variant with a plausible bug: standard-error is only looked at when the
\* standard-output is empty.
run_communicated_stderr_late(command, p) ==
    IF p.stderr # <<>> /\ p.stdout = <<>>
    THEN Returned(TRUE, None, "command error", ErrorStr(decode(p.stderr)))
    ELSE run_parse(command, decode(p.stdout))

\* main.py:187-212: after communicate() returned.  "if stderr" is true of any
\* non-empty bytes; the decoding replaces what it cannot decode, and the
\* error is logged (main.py:192).
run_communicated(command, p) ==
    IF p.stderr # <<>>
    THEN Returned(TRUE, None, "command error", ErrorStr(decode(p.stderr)))
    ELSE run_parse(command, decode(p.stdout))

\* Variant with a plausible bug: a failure to start the process is not caught.
run_diagnostic_launch_raises(command, target, p) ==
    IF target = NoneStr \/ p.launch # "ok"
    THEN [raised |-> TRUE, launched |-> FALSE, parser |-> None, logged |-> NoneStr,
          result |-> <<>>]
    ELSE IF p.communicate # "ok"
    THEN Returned(TRUE, None, "diagnostic error", ErrorStr(<<p.communicate>>))
    ELSE run_communicated(command, p)

\* run_diagnostic(command, target) when the process behaves as p.
\*   main.py:182  create_subprocess_exec raises TypeError for a target that is
\*                None, and whatever the launch raises otherwise;
\*   main.py:185  communicate() returns the two streams or raises;
\*   main.py:214  every Exception is logged and becomes the string
\*                "Error: " + str(e).
run_diagnostic(command, target, p) ==
    IF target = NoneStr
    THEN Returned(FALSE, None, "diagnostic error", ErrorStr(<<"TypeError">>))
    ELSE IF p.launch # "ok"
    THEN Returned(FALSE, None, "diagnostic error", ErrorStr(<<p.launch>>))
    ELSE IF p.communicate # "ok"
    THEN Returned(TRUE, None, "diagnostic error", ErrorStr(<<p.communicate>>))
    ELSE run_communicated(command, p)

-----------------------------------------------------------------------------
(* The probes' output, as the environment of the Probe Runner *)

\* What a latency probe measured.  Each field is printed well-formed ("ok"),
\* printed in a shape the patterns do not accept ("garbled"), or left out.
Field(shape, v) == [shape |-> shape, v |-> v]

PingReport(loss, mn, mx, mean) == [loss |-> loss, min |-> mn, max |-> mx, mean |-> mean]

\* The statistics the Russian Windows ping prints, decoded as run_diagnostic
\* decodes them:  "(L% poter')" / "Minimal'noe = Nmsek, Maksimal'noe = N msek,
\* Srednee = N msek".
ping_text(r) ==
    <<"x", " ">>
    \o (CASE r.loss.shape = "ok" -> <<"(">> \o str(r.loss.v) \o <<"%_poter)">>
          [] r.loss.shape = "garbled" -> <<"(", "%_poter)">>
          [] OTHER -> <<>>)
    \o <<"\n">>
    \o (CASE r.min.shape = "ok" -> <<"Minimalnoe_=_">> \o str(r.min.v) \o <<"msek">>
          [] r.min.shape = "garbled" -> <<"Minimalnoe_=_">> \o str(r.min.v) \o <<" ", "msek">>
          [] OTHER -> <<>>)
    \o <<",", " ">>
    \o (CASE r.max.shape = "ok" -> <<"Maksimalnoe_=_">> \o str(r.max.v) \o <<" ", "msek">>
          [] r.max.shape = "garbled" -> <<"Maksimalnoe_=_">> \o str(r.max.v) \o <<"msek">>
          [] OTHER -> <<>>)
    \o <<",", " ">>
    \o (CASE r.mean.shape = "ok" -> <<"Srednee_=_">> \o str(r.mean.v) \o <<" ", "msek">>
          [] r.mean.shape = "garbled" -> <<"Srednee_=_", " ", "msek">>
          [] OTHER -> <<>>)
    \o <<"\n">>

\* Greatest round-trip time and the packet-loss values the harness draws.
MaxRtt == 11

LossVals == {0, 50, 100}

Shapes(vals) == {Field("ok", v) : v \in vals} \cup {Field("garbled", 0), Field("absent", 0)}

PingReports ==
    {PingReport(l, a, b, c) : l \in Shapes(LossVals), a \in Shapes(0..MaxRtt),
                              b \in Shapes(0..MaxRtt), c \in Shapes(0..MaxRtt)}

\* A consistent report with everything printed, and one without the mean.
PingGood == PingReport(Field("ok", 0), Field("ok", 10), Field("ok", 22), Field("ok", 15))

PingNoMean == PingReport(Field("ok", 50), Field("ok", 10), Field("ok", 22), Field("absent", 0))

\* Route-trace outputs: a banner and no hop line; a banner, a blank line, two
\* hop lines and a trailer; hop-like lines that the pattern rejects; a hop line
\* among the first three lines.
TracertBanner ==
    <<"\n", "h", " ", "a", ".", "b", "\n", "h", "\n", "\n">>

TracertTwoHops ==
    <<"\n", "h", " ", "a", ".", "b", "\n", "h", "\n", "\n", " ", " ", "1", " ", " ", "1", "0", " ", "m", "s", " ", " ", "1", "2", " ", "m", "s", " ", " ", "1", "1", " ", "m", "s", " ", " ", "a", ".", "b", "\n", " ", " ", "2", " ", " ", "*", " ", " ", "*", " ", " ", "*", " ", " ", "uFFFD", "\n", "\n", "h", "\n">>

TracertNoMatch ==
    <<"h", "\n", "h", "\n", "\n", " ", " ", "1", " ", " ", "<", "1", " ", "m", "s", " ", " ", "a", ".", "b", "\n">>

TracertEarlyHop ==
    <<" ", " ", "1", " ", " ", "1", "0", " ", "m", "s", " ", " ", "a", ".", "b", "\n", "h", "\n", "h", "\n">>

\* The outcomes of one probe the session is run against.
ProcOutcomes(command) ==
    LET outs == IF command = "ping"
                THEN {ping_text(PingGood), ping_text(PingNoMean), <<"xFF">>}
                ELSE {<<>>, TracertBanner, TracertTwoHops, TracertNoMatch, TracertEarlyHop}
    IN  {ProcOutcome("ok", "ok", o, <<>>) : o \in outs}
        \cup {ProcOutcome("ok", "ok", o, <<"e", "xFF">>) : o \in outs}
        \cup {ProcOutcome("FileNotFoundError", "ok", <<>>, <<>>),
              ProcOutcome("ok", "OSError", <<>>, <<>>)}

-----------------------------------------------------------------------------
(* Session: DiagnosticClient *)

\* asyncio.sleep(5) of connect().
ReconnectDelay == 5

\* Bounds of the model: websockets.connect calls, and frames the server sends.
MaxAttempts == 2

MaxFrames == 2

\* load_or_create_config: the city is derived from the agreement id.
ClientConfig(agreement_id) ==
    [agreement_id |-> agreement_id, city |-> get_city_from_agreement_id(agreement_id)]

AgreementIds == {<<>>, <<"4", "8", "1", "0", "7">>}

\* An inbound frame: text that json.loads accepts ("json") or rejects
\* ("garbage"); for accepted text, whether it holds an object, and the object.
Frame(wire, isdict, obj) == [wire |-> wire, isdict |-> isdict, obj |-> obj]

Frames ==
    {Frame("garbage", FALSE, <<>>),
     Frame("json", FALSE, <<>>),
     Frame("json", TRUE, [type |-> "command", command |-> "ping", target |-> "h1"]),
     Frame("json", TRUE, [type |-> "command", command |-> "tracert", target |-> "h2"]),
     Frame("json", TRUE, [type |-> "command", command |-> "ping"]),
     Frame("json", TRUE, [type |-> "command", command |-> "reboot", target |-> "h1"]),
     Frame("json", TRUE, [type |-> "hello"])}

\* dict.get(key)
get(d, key) == IF key \in DOMAIN d THEN d[key] ELSE NoneStr

\* The registration message (main.py:243-251).  conn is not on the wire: it
\* records the connection the message was written to.
Registration ==
    [type |-> "registration", conn |-> conn,
     data |-> [agreement_id |-> config.agreement_id, city |-> config.city,
               os |-> "Windows", hostname |-> "host"]]

\* The result message (main.py:284-291).  conn and seq are not on the wire:
\* the connection it was written to, and the number of the command it answers.
Response(command, target, result) ==
    [type |-> "result", conn |-> conn, seq |-> Len(received),
     agreement |-> config.agreement_id, city |-> config.city,
     command |-> command, target |-> target, result |-> result]

SessionInit ==
    /\ pc = "connect"
    /\ is_running = TRUE
    /\ conn = 0
    /\ attempts = 0
    /\ open = FALSE
    /\ fault = "none"
    /\ inbox = <<>>
    /\ nframes = 0
    /\ handled = 0
    /\ sent = <<>>
    /\ received = <<>>
    /\ dropped = {}
    /\ cur = None
    /\ proc = None
    /\ run = None
    /\ lost = FALSE
    /\ slept = 0
    /\ log = "start"

ParserIdle ==
    /\ report = PingGood
    /\ output = <<>>
    /\ parsed = None
    /\ pstage = "idle"

Init ==
    /\ SessionInit
    /\ config \in {ClientConfig(id) : id \in AgreementIds}
    /\ ParserIdle

\* The exceptions a failed transport raises: websockets.ConnectionClosed, or
\* any other one.
TransportFaults == {"ConnectionClosed", "OSError"}

\* The connection is given up: the async with block is left (the websocket is
\* closed, what it had buffered is gone) and a loss is on record.
ConnectionLost ==
    /\ open' = FALSE
    /\ inbox' = <<>>
    /\ lost' = TRUE
    /\ slept' = 0

\* Variant with a plausible bug: a failed handshake ends the retries.
connect_gives_up ==
    /\ pc = "connect"
    /\ is_running
    /\ attempts < MaxAttempts
    /\ attempts' = attempts + 1
    /\ fault' = "none"
    /\ \E established \in BOOLEAN :
          IF established
          THEN /\ conn' = conn + 1
               /\ open' = TRUE
               /\ inbox' = <<>>
               /\ lost' = FALSE
               /\ slept' = 0
               /\ pc' = "register"
               /\ log' = log
               /\ is_running' = is_running
          ELSE /\ ConnectionLost
               /\ pc' = "sleep"
               /\ log' = "connect error"
               /\ conn' = conn
               /\ is_running' = FALSE
    /\ UNCHANGED <<config, nframes, handled, sent, received, dropped, cur, proc, run>>
    /\ UNCHANGED parserVars

\* connect(), one turn of "while self.is_running" up to the transport
\* handshake (main.py:227-230).  A failed handshake is caught at main.py:236
\* and leads to the sleep.
connect ==
    /\ pc = "connect"
    /\ is_running
    /\ attempts < MaxAttempts
    /\ attempts' = attempts + 1
    /\ fault' = "none"
    /\ \E established \in BOOLEAN :
          IF established
          THEN /\ conn' = conn + 1
               /\ open' = TRUE
               /\ inbox' = <<>>
               /\ lost' = FALSE
               /\ slept' = 0
               /\ pc' = "register"
               /\ log' = log
          ELSE /\ ConnectionLost
               /\ pc' = "sleep"
               /\ log' = "connect error"
               /\ conn' = conn
    /\ UNCHANGED <<is_running, config, nframes, handled, sent, received, dropped,
                   cur, proc, run>>
    /\ UNCHANGED parserVars

\* await asyncio.sleep(5) in either except branch of connect (main.py:233-238).
reconnect_sleep ==
    /\ pc = "sleep"
    /\ slept' = ReconnectDelay
    /\ pc' = "connect"
    /\ UNCHANGED <<is_running, config, fault, conn, attempts, open, inbox, nframes, handled,
                   sent, received, dropped, cur, proc, run, lost, log>>
    /\ UNCHANGED parserVars

\* Variant with a plausible bug: the exit on an empty agreement id is caught
\* by connect's "except Exception" like any other error.
register_client_exit_caught ==
    /\ pc = "register"
    /\ IF config.agreement_id # <<>> /\ open
       THEN /\ sent' = Append(sent, Registration)
            /\ pc' = "recv"
            /\ log' = log
            /\ UNCHANGED <<open, inbox, lost, slept>>
       ELSE /\ ConnectionLost
            /\ pc' = "sleep"
            /\ log' = "connect error"
            /\ sent' = sent
    /\ UNCHANGED <<is_running, config, fault, conn, attempts, nframes, handled, received,
                   dropped, cur, proc, run>>
    /\ UNCHANGED parserVars

\* Variant with a plausible bug: the registration is built and logged, but
\* not written to the connection.
register_client_skips_send ==
    /\ pc = "register"
    /\ IF config.agreement_id # <<>>
       THEN /\ pc' = "recv"
            /\ UNCHANGED <<sent, log, open, inbox, lost, slept>>
       ELSE /\ pc' = "exited"
            /\ log' = "no agreement id"
            /\ open' = FALSE
            /\ inbox' = <<>>
            /\ UNCHANGED <<sent, lost, slept>>
    /\ UNCHANGED <<is_running, config, fault, conn, attempts, nframes, handled, received,
                   dropped, cur, proc, run>>
    /\ UNCHANGED parserVars

\* register_client (main.py:240-257), awaited at main.py:231.  With an
\* agreement id the registration is sent; a send on a failed transport raises
\* ConnectionClosed, caught at main.py:233, or another exception, caught at
\* main.py:236.  Without one, sys.exit() raises
\* SystemExit, which is no Exception: neither except branch of connect nor
\* that of main catches it, and the process ends.
register_client ==
    /\ pc = "register"
    /\ IF config.agreement_id # <<>>
       THEN IF open
            THEN /\ sent' = Append(sent, Registration)
                 /\ pc' = "recv"
                 /\ log' = log
                 /\ UNCHANGED <<open, inbox, lost, slept>>
            ELSE /\ ConnectionLost
                 /\ pc' = "sleep"
                 /\ log' = IF fault = "ConnectionClosed" THEN "connection lost"
                                                          ELSE "connect error"
                 /\ sent' = sent
       ELSE /\ pc' = "exited"
            /\ log' = "no agreement id"
            /\ open' = FALSE
            /\ inbox' = <<>>
            /\ UNCHANGED <<sent, lost, slept>>
    /\ UNCHANGED <<is_running, config, fault, conn, attempts, nframes, handled, received,
                   dropped, cur, proc, run>>
    /\ UNCHANGED parserVars

\* Variant with a plausible bug: the kind of a command is not looked at.
process_message_any_kind(message) ==
    IF get(message, "type") = "command"
    THEN /\ cur' = Some([command |-> get(message, "command"),
                         target |-> get(message, "target")])
         /\ received' = Append(received, [conn |-> conn, frame |-> handled + 1,
                                          command |-> get(message, "command"),
                                          target |-> get(message, "target")])
         /\ pc' = "probe"
         /\ log' = log
    ELSE /\ pc' = "recv"
         /\ UNCHANGED <<cur, received, log>>

\* Variant with a plausible bug: the probe is started and not awaited, and
\* the receive loop goes on at once.
process_message_not_awaited(message) ==
    IF /\ get(message, "type") = "command"
       /\ get(message, "command") \in {"tracert", "ping"}
    THEN /\ cur' = Some([command |-> get(message, "command"),
                         target |-> get(message, "target")])
         /\ received' = Append(received, [conn |-> conn, frame |-> handled + 1,
                                          command |-> get(message, "command"),
                                          target |-> get(message, "target")])
         /\ pc' = "recv"
         /\ log' = log
    ELSE /\ pc' = "recv"
         /\ UNCHANGED <<cur, received, log>>

\* process_message up to its first await (main.py:274-279): a command of kind
\* tracert or ping starts run_diagnostic, anything else returns at once.
process_message(message) ==
    IF /\ get(message, "type") = "command"
       /\ get(message, "command") \in {"tracert", "ping"}
    THEN /\ cur' = Some([command |-> get(message, "command"),
                         target |-> get(message, "target")])
         /\ received' = Append(received, [conn |-> conn, frame |-> handled + 1,
                                          command |-> get(message, "command"),
                                          target |-> get(message, "target")])
         /\ pc' = "probe"
         /\ log' = log
    ELSE /\ pc' = "recv"
         /\ UNCHANGED <<cur, received, log>>

\* Variant with a plausible bug: a frame that is not JSON ends the receive
\* loop like a closed connection.
message_handler_breaks_on_garbage ==
    /\ pc = "recv"
    /\ is_running
    /\ IF inbox # <<>>
       THEN /\ handled' = handled + 1
            /\ IF Head(inbox).wire # "json"
               THEN /\ log' = "invalid JSON"
                    /\ pc' = "connect"
                    /\ ConnectionLost
                    /\ UNCHANGED <<cur, received>>
               ELSE /\ inbox' = Tail(inbox)
                    /\ UNCHANGED <<open, lost, slept>>
                    /\ IF ~Head(inbox).isdict
                       THEN /\ log' = "message error"
                            /\ pc' = "recv"
                            /\ UNCHANGED <<cur, received>>
                       ELSE process_message(Head(inbox).obj)
       ELSE /\ ~open
            /\ IF fault = "ConnectionClosed"
               THEN /\ ConnectionLost
                    /\ pc' = "connect"
                    /\ log' = log
               ELSE /\ log' = "message error"
                    /\ pc' = "recv"
                    /\ UNCHANGED <<open, inbox, lost, slept>>
            /\ UNCHANGED <<handled, cur, received>>
    /\ UNCHANGED <<is_running, config, fault, conn, attempts, nframes, sent, dropped, proc, run>>
    /\ UNCHANGED parserVars

\* message_handler, one turn of "while self.is_running" (main.py:261-270):
\* recv() returns the next buffered frame, or raises ConnectionClosed once the
\* transport is closed and nothing is buffered.
\*   main.py:264  json.loads raises JSONDecodeError on a frame that is not
\*                JSON: logged at 268, the loop goes on;
\*   main.py:274  message.get on a value that is no dict raises
\*                AttributeError: logged at 270, the loop goes on;
\*   main.py:266  ConnectionClosed breaks the loop: message_handler returns,
\*                the async with block of connect is left without an
\*                exception, and connect's loop starts its next turn;
\*   main.py:269  any other exception of recv() is logged, and the loop goes
\*                on with the next recv().
message_handler ==
    /\ pc = "recv"
    /\ is_running
    /\ IF inbox # <<>>
       THEN /\ inbox' = Tail(inbox)
            /\ handled' = handled + 1
            /\ UNCHANGED <<open, lost, slept>>
            /\ IF Head(inbox).wire # "json"
               THEN /\ log' = "invalid JSON"
                    /\ pc' = "recv"
                    /\ UNCHANGED <<cur, received>>
               ELSE IF ~Head(inbox).isdict
               THEN /\ log' = "message error"
                    /\ pc' = "recv"
                    /\ UNCHANGED <<cur, received>>
               ELSE process_message(Head(inbox).obj)
       ELSE /\ ~open
            /\ IF fault = "ConnectionClosed"
               THEN /\ ConnectionLost
                    /\ pc' = "connect"
                    /\ log' = log
               ELSE /\ log' = "message error"
                    /\ pc' = "recv"
                    /\ UNCHANGED <<open, inbox, lost, slept>>
            /\ UNCHANGED <<handled, cur, received>>
    /\ UNCHANGED <<is_running, config, fault, conn, attempts, nframes, sent, dropped, proc, run>>
    /\ UNCHANGED parserVars

\* The targets of the model's frames.
Targets == {"h1", "h2", NoneStr}

\* The processes the probe can be run against: none is started for a target
\* that is None.
Outcomes(command, target) ==
    IF target = NoneStr THEN {ProcOutcome("ok", "ok", <<>>, <<>>)} ELSE ProcOutcomes(command)

\* The kinds run_diagnostic is called with: the two the session dispatches,
\* and one it does not.
CommandKinds == {"ping", "tracert", "reboot"}

\* run_diagnostic, tabulated over the commands, targets and processes of the
\* model.
RunTable ==
    [command \in CommandKinds, target \in Targets |->
        [p \in Outcomes(command, target) |-> run_diagnostic(command, target, p)]]

\* run_diagnostic comes back into process_message (main.py:279) after the
\* process behaved as p: its value is kept for send_result, and what it logged
\* is the last record of the log.  Were it to raise, the exception would reach
\* "except Exception" of message_handler (main.py:269): logged, no result
\* sent, the loop goes on.
run_returns(p) ==
    LET r == RunTable[cur[1].command, cur[1].target][p]
    IN  IF r.raised
        THEN /\ pc' = "recv"
             /\ log' = "message error"
             /\ cur' = None
             /\ proc' = None
             /\ run' = None
        ELSE /\ pc' = "send"
             /\ log' = IF r.logged = NoneStr THEN log ELSE r.logged
             /\ cur' = cur
             /\ proc' = Some(p)
             /\ run' = Some(r)

\* run_diagnostic up to its first await (main.py:180-184): the process is
\* started and the coroutine goes on to wait for it, or the launch raises
\* (for a target that is None, before any process is started) and
\* run_diagnostic returns at once through its except branch.
create_subprocess_exec ==
    /\ pc = "probe"
    /\ \E p \in Outcomes(cur[1].command, cur[1].target) :
          IF cur[1].target = NoneStr \/ p.launch # "ok"
          THEN run_returns(p)
          ELSE /\ pc' = "running"
               /\ UNCHANGED <<log, cur, proc, run>>
    /\ UNCHANGED <<is_running, config, fault, conn, attempts, open, inbox, nframes, handled,
                   sent, received, dropped, lost, slept>>
    /\ UNCHANGED parserVars

\* run_diagnostic from its second await to its return (main.py:185-216):
\* communicate() comes back when the process has exited, or raises; all the
\* while the event loop went on delivering frames and transport failures.
communicate ==
    /\ pc = "running"
    /\ \E p \in Outcomes(cur[1].command, cur[1].target) :
          /\ p.launch = "ok"
          /\ run_returns(p)
    /\ UNCHANGED <<is_running, config, fault, conn, attempts, open, inbox, nframes, handled,
                   sent, received, dropped, lost, slept>>
    /\ UNCHANGED parserVars

\* Variant with a plausible bug: an error outcome is logged and not reported.
send_result_skips_errors ==
    /\ pc = "send"
    /\ IF open
       THEN /\ sent' = IF IsErrorStr(run[1].result) THEN sent
                       ELSE Append(sent, Response(cur[1].command, cur[1].target, run[1].result))
            /\ pc' = "recv"
            /\ UNCHANGED <<open, inbox, lost, slept, dropped, log>>
       ELSE /\ dropped' = dropped \cup {Len(received)}
            /\ sent' = sent
            /\ IF fault = "ConnectionClosed"
               THEN /\ ConnectionLost
                    /\ pc' = "connect"
                    /\ log' = log
               ELSE /\ log' = "message error"
                    /\ pc' = "recv"
                    /\ UNCHANGED <<open, inbox, lost, slept>>
    /\ cur' = None
    /\ proc' = None
    /\ run' = None
    /\ UNCHANGED <<is_running, config, fault, conn, attempts, nframes, handled, received>>
    /\ UNCHANGED parserVars

\* Variant with a plausible bug: a send that finds the connection closed
\* opens a new one and writes the result there.
send_result_on_new_connection ==
    /\ pc = "send"
    /\ IF open
       THEN /\ sent' = Append(sent, Response(cur[1].command, cur[1].target, run[1].result))
            /\ UNCHANGED <<open, conn, fault>>
       ELSE /\ sent' = Append(sent, [Response(cur[1].command, cur[1].target, run[1].result)
                                        EXCEPT !.conn = conn + 1])
            /\ conn' = conn + 1
            /\ open' = TRUE
            /\ fault' = "none"
    /\ pc' = "recv"
    /\ cur' = None
    /\ proc' = None
    /\ run' = None
    /\ UNCHANGED <<is_running, config, attempts, inbox, nframes, handled, received,
                   dropped, lost, slept, log>>
    /\ UNCHANGED parserVars

\* await self.send_result(command, target, result) (main.py:280, 282-292).
\* The send on an open transport writes the response and process_message
\* returns to the receive loop; on a failed one it raises: ConnectionClosed,
\* which message_handler catches at main.py:265 and breaks on, or another
\* exception, which it logs at main.py:269-270 before its next recv().
send_result ==
    /\ pc = "send"
    /\ IF open
       THEN /\ sent' = Append(sent, Response(cur[1].command, cur[1].target, run[1].result))
            /\ pc' = "recv"
            /\ UNCHANGED <<open, inbox, lost, slept, dropped, log>>
       ELSE /\ dropped' = dropped \cup {Len(received)}
            /\ sent' = sent
            /\ IF fault = "ConnectionClosed"
               THEN /\ ConnectionLost
                    /\ pc' = "connect"
                    /\ log' = log
               ELSE /\ log' = "message error"
                    /\ pc' = "recv"
                    /\ UNCHANGED <<open, inbox, lost, slept>>
    /\ cur' = None
    /\ proc' = None
    /\ run' = None
    /\ UNCHANGED <<is_running, config, fault, conn, attempts, nframes, handled, received>>
    /\ UNCHANGED parserVars

\* The server writes a frame to the open connection.
server_send ==
    /\ pc \in {"register", "recv", "probe", "running", "send"}
    /\ open
    /\ nframes < MaxFrames
    /\ \E f \in Frames : inbox' = Append(inbox, f)
    /\ nframes' = nframes + 1
    /\ UNCHANGED <<pc, is_running, config, fault, conn, attempts, open, handled, sent,
                   received, dropped, cur, proc, run, lost, slept, log>>
    /\ UNCHANGED parserVars

\* The transport fails: the server or the network closes it, and from then on
\* recv() (once its buffer is empty) and send() raise ConnectionClosed, or it
\* breaks in a way they report with another exception.
transport_close ==
    /\ pc \in {"register", "recv", "probe", "running", "send"}
    /\ open
    /\ open' = FALSE
    /\ fault' \in TransportFaults
    /\ UNCHANGED <<pc, is_running, config, conn, attempts, inbox, nframes, handled,
                   sent, received, dropped, cur, proc, run, lost, slept, log>>
    /\ UNCHANGED parserVars

Next ==
    \/ connect
    \/ reconnect_sleep
    \/ register_client
    \/ message_handler
    \/ create_subprocess_exec
    \/ communicate
    \/ send_result
    \/ server_send
    \/ transport_close

Spec == Init /\ [][Next]_vars

\* The session is one coroutine that the event loop keeps running, and each
\* of its awaits comes back: websockets.connect returns or raises (it has an
\* opening timeout), asyncio.sleep(5) returns, send() returns or raises,
\* recv() returns a buffered frame or raises once the transport has failed,
\* and the external process of a probe exits.  Nothing is assumed of the
\* server or of the network.
\* Frames the server sends in the runs checked for progress.
MaxFairFrames == 1

FairNext ==
    \/ connect
    \/ reconnect_sleep
    \/ register_client
    \/ message_handler
    \/ create_subprocess_exec
    \/ communicate
    \/ send_result
    \/ server_send /\ nframes < MaxFairFrames
    \/ transport_close

FairSpec ==
    /\ Init /\ [][FairNext]_vars
    /\ WF_vars(connect)
    /\ WF_vars(reconnect_sleep)
    /\ WF_vars(register_client)
    /\ WF_vars(message_handler)
    /\ WF_vars(create_subprocess_exec)
    /\ WF_vars(communicate)
    /\ WF_vars(send_result)

\* The sequences over S of length at most n.
RECURSIVE SeqsUpTo(_, _)
SeqsUpTo(S, n) ==
    IF n = 0 THEN {<<>>}
    ELSE LET shorter == SeqsUpTo(S, n - 1)
         IN  shorter \cup {Append(q, x) : q \in {r \in shorter : Len(r) = n - 1}, x \in S}

-----------------------------------------------------------------------------
(* The latency parser on its own: every report of PingReports is printed and
   parsed. *)

PingInit ==
    /\ SessionInit
    /\ config = ClientConfig(<<>>)
    /\ report \in PingReports
    /\ output = ping_text(report)
    /\ parsed = None
    /\ pstage = "input"

parse_ping ==
    /\ pstage = "input"
    /\ parsed' = parse_ping_output(output)
    /\ pstage' = "done"
    /\ UNCHANGED <<report, output>>
    /\ UNCHANGED sessionVars

PingSpec == PingInit /\ [][parse_ping]_vars

-----------------------------------------------------------------------------
(* The probe runner on its own: run_diagnostic is called with every command
   kind of CommandKinds, the two-argument call a dispatcher could make, and
   every process outcome. *)

RunInit ==
    /\ SessionInit
    /\ config = ClientConfig(<<>>)
    /\ \E command \in CommandKinds, target \in Targets :
          \E p \in Outcomes(command, target) :
             /\ report = [command |-> command, target |-> target, p |-> p]
             /\ output = p.stdout
    /\ parsed = None
    /\ pstage = "input"

run_diagnostic_call ==
    /\ pstage = "input"
    /\ parsed' = Some(run_diagnostic(report.command, report.target, report.p))
    /\ pstage' = "done"
    /\ UNCHANGED <<report, output>>
    /\ UNCHANGED sessionVars

RunSpec == RunInit /\ [][run_diagnostic_call]_vars

-----------------------------------------------------------------------------
(* The city lookup on its own: every agreement id of up to MaxIdLen digits is
   looked up. *)

MaxIdLen == 4

CityInit ==
    /\ SessionInit
    /\ config = ClientConfig(<<>>)
    /\ \E id \in SeqsUpTo(Digits, MaxIdLen) :
          /\ report = [agreement_id |-> id]
          /\ output = id
    /\ parsed = None
    /\ pstage = "input"

get_city ==
    /\ pstage = "input"
    /\ parsed' = Some(get_city_from_agreement_id(report.agreement_id))
    /\ pstage' = "done"
    /\ UNCHANGED <<report, output>>
    /\ UNCHANGED sessionVars

CitySpec == CityInit /\ [][get_city]_vars

-----------------------------------------------------------------------------
(* The route-trace parser on its own: every text of up to MaxLines lines, each
   one of TraceLines, is parsed. *)

\* Greatest number of lines of a text.
MaxLines == 5

\* The lines a text is made of: a blank line, a line of the banner, a hop line
\* with three samples and an address, a hop line of timeouts followed by a
\* message in a script the console cannot print.
TraceLines ==
    {<<>>,
     <<"h", " ", "a", ".", "b">>,
     <<" ", " ", "1", " ", " ", "1", "0", " ", "m", "s", " ", " ", "1", "2", " ", "m", "s", " ", " ", "1", "1", " ", "m", "s", " ", " ", "a", ".", "b">>,
     <<" ", "1", "2", " ", " ", "*", " ", " ", "*", " ", " ", "*", " ", " ", "uFFFD">>}

\* The text of the lines ls, each ended by a line break.
RECURSIVE text_of(_)
text_of(ls) == IF ls = <<>> THEN <<>> ELSE Head(ls) \o <<"\n">> \o text_of(Tail(ls))

TracertInit ==
    /\ SessionInit
    /\ config = ClientConfig(<<>>)
    /\ \E ls \in SeqsUpTo(TraceLines, MaxLines) :
          /\ report = [lines |-> ls]
          /\ output = text_of(ls)
    /\ parsed = None
    /\ pstage = "input"

parse_tracert ==
    /\ pstage = "input"
    /\ parsed' = parse_tracert_output(output)
    /\ pstage' = "done"
    /\ UNCHANGED <<report, output>>
    /\ UNCHANGED sessionVars

TracertSpec == TracertInit /\ [][parse_tracert]_vars

-----------------------------------------------------------------------------
(* The route-trace parser on one hop line: a banner of three lines, the line
   the route trace prints for a hop, and a trailer. *)

\* Greatest number of samples on a hop line, and greatest round-trip time.
MaxSamples == 3

MaxTraceRtt == 11

TraceRtts == (MaxTraceRtt - 3)..MaxTraceRtt

\* One sample of a hop: a round-trip time, or a timeout.
Sample(timeout, ms) == [timeout |-> timeout, ms |-> ms]

TraceSamples == {Sample(FALSE, v) : v \in TraceRtts} \cup {Sample(TRUE, 0)}

HopIndexes == {1, 12}

\* What follows the samples: an address, a message the console cannot print,
\* or nothing.
HopEndings == {<<" ", " ", "a", ".", "b">>, <<" ", " ", "uFFFD">>, <<>>}

\* "  10 ms" for a round-trip time, "  *" for a timeout.
RECURSIVE samples_text(_)
samples_text(xs) ==
    IF xs = <<>> THEN <<>>
    ELSE <<" ", " ">>
         \o (IF Head(xs).timeout THEN <<"*">> ELSE str(Head(xs).ms) \o <<" ", "m", "s">>)
         \o samples_text(Tail(xs))

hop_line(h) == <<" ", " ">> \o str(h.idx) \o samples_text(h.samples) \o h.ending

HopInit ==
    /\ SessionInit
    /\ config = ClientConfig(<<>>)
    /\ \E idx \in HopIndexes, xs \in SeqsUpTo(TraceSamples, MaxSamples), ending \in HopEndings :
          /\ report = [idx |-> idx, samples |-> xs, ending |-> ending]
          /\ output = text_of(<<<<"h">>, <<"h">>, <<>>, hop_line(report), <<"h">>>>)
    /\ parsed = None
    /\ pstage = "input"

HopSpec == HopInit /\ [][parse_tracert]_vars

-----------------------------------------------------------------------------
(* Properties *)

\* The result messages written so far that answer command number k.
ResultsFor(k) == {i \in 1..Len(sent) : sent[i].type = "result" /\ sent[i].seq = k}

\* Command number k is still being worked on.
InFlight(k) == k = Len(received) /\ pc \in {"probe", "running", "send"}

\* json.dumps output: it opens with "{" or "[".
IsJsonStr(s) == Len(s) = 3 /\ s[1] \in {"{", "["}

\* C1: while the session is Active, a running probe does not block reception:
\* with a probe in flight and a frame waiting on the connection, the receive
\* loop can take that frame (so that a second probe could start before the
\* first has finished).
C1_DispatchDoesNotBlockReception ==
    (pc \in {"probe", "running"} /\ inbox # <<>>) => ENABLED message_handler

\* C2: for a latency report that prints all four fields with
\* minimum <= mean <= maximum, parse_ping_output returns a record with
\* min_rtt <= avg_rtt <= max_rtt whose avg_rtt is the reported mean and whose
\* max_rtt is the reported maximum.
C2_PingResultOrdered ==
    (/\ pstage = "done"
     /\ \A f \in {report.loss, report.min, report.max, report.mean} : f.shape = "ok"
     /\ report.min.v <= report.mean.v
     /\ report.mean.v <= report.max.v)
    => /\ parsed # None
       /\ parsed[1].min_rtt <= parsed[1].avg_rtt
       /\ parsed[1].avg_rtt <= parsed[1].max_rtt
       /\ parsed[1].avg_rtt = report.mean.v
       /\ parsed[1].max_rtt = report.max.v

\* C3: every ping or tracert command received gets exactly one result message,
\* written on the connection it came from, with the configured identifier and
\* city, the command's own kind and target and an outcome that is serialized
\* data or an "Error:" string; the only commands without one are the command
\* still in flight and those whose send found the connection closed.
C3_OneResultPerCommand ==
    /\ \A i \in 1..Len(sent) :
          sent[i].type = "result" =>
              /\ sent[i].seq \in 1..Len(received)
              /\ sent[i].conn = received[sent[i].seq].conn
              /\ sent[i].command = received[sent[i].seq].command
              /\ sent[i].target = received[sent[i].seq].target
              /\ sent[i].command \in {"ping", "tracert"}
              /\ sent[i].agreement = config.agreement_id
              /\ sent[i].city = config.city
              /\ IsErrorStr(sent[i].result) \/ IsJsonStr(sent[i].result)
    /\ \A k \in 1..Len(received) :
          /\ Cardinality(ResultsFor(k)) <= 1
          /\ ResultsFor(k) = {} <=> (InFlight(k) \/ k \in dropped)

\* C3 witness: on one connection an error outcome and a structured outcome
\* have both been reported, and the session is back in its receive loop.
C3_Witness ==
    /\ pc = "recv"
    /\ open
    /\ Len(received) = 2
    /\ \E i, j \in 1..Len(sent) :
          /\ sent[i].type = "result" /\ IsErrorStr(sent[i].result)
          /\ sent[j].type = "result" /\ IsJsonStr(sent[j].result)
          /\ sent[i].conn = sent[j].conn

\* C4: a new connection attempt after a connection loss is preceded by the
\* 5-unit delay.
C4_DelayBeforeReconnect ==
    (pc = "connect" /\ lost) => slept = ReconnectDelay

\* C5: with an empty identifier, registration ends the process: the session
\* leaves registration only by exiting, nothing is ever sent, no inbound frame
\* is ever taken, and after the exit there is no delay and no connection
\* attempt.
C5_EmptyIdentifierExits ==
    [][config.agreement_id = <<>> =>
          /\ (pc = "register" /\ pc' # "register") => pc' = "exited"
          /\ sent' = <<>>
          /\ handled' = 0
          /\ pc' \notin {"recv", "probe", "running", "send"}
          /\ pc = "exited" => (pc' = "exited" /\ attempts' = attempts /\ slept' = slept)]_vars

\* C5 witness: the process has exited at registration, on a connection made
\* after an earlier attempt had failed and been slept on.
C5_Witness ==
    /\ pc = "exited"
    /\ config.agreement_id = <<>>
    /\ attempts = 2
    /\ conn = 1

\* C6: taking a frame that is not JSON logs it and keeps the session in its
\* receive loop on the same, untouched connection, with nothing sent; the
\* frames behind it stay queued for the next turn of the loop.
C6_GarbageFrameSkipped ==
    [][(pc = "recv" /\ inbox # <<>> /\ Head(inbox).wire = "garbage" /\ handled' # handled) =>
          /\ pc' = "recv"
          /\ conn' = conn
          /\ open' = open
          /\ sent' = sent
          /\ inbox' = Tail(inbox)
          /\ received' = received
          /\ lost' = lost
          /\ log' = "invalid JSON"]_vars

\* C6 witness: on the first connection a frame that is not JSON was logged
\* and the command that followed it has been answered.
C6_Witness ==
    /\ attempts = 1
    /\ log = "invalid JSON"
    /\ handled = 2
    /\ Len(received) = 1
    /\ received[1].frame = 2
    /\ ResultsFor(1) # {}

\* C7: when the process wrote anything to standard-error, run_diagnostic
\* returns "Error: " followed by the decoded standard-error, and calls no
\* parser, whatever the standard-output holds.
C7_StderrMeansError ==
    (/\ pc = "send"
     /\ run[1].launched
     /\ proc[1].communicate = "ok"
     /\ proc[1].stderr # <<>>)
    => /\ IsErrorStr(run[1].result)
       /\ run[1].result = <<"Error:", " ">> \o decode(proc[1].stderr)
       /\ run[1].parser = None

\* C7 witness: the probe wrote to standard-error and a standard-output that
\* the parser would have accepted.
C7_Witness ==
    /\ pc = "send"
    /\ proc[1].stderr # <<>>
    /\ proc[1].stdout \in {ping_text(PingGood), TracertTwoHops}

\* Whether the run of the process p for the command c failed to launch, to
\* hand over its streams, or to parse.  The parse has failed when the parser's
\* value is false in run_diagnostic's tests: "if ping_stats" (main.py:203),
\* false of None; "if tracert_data" (main.py:209), false of None and of the
\* empty list.
ProbeFault(c, p) ==
    \/ c.target = NoneStr
    \/ p.launch # "ok"
    \/ p.communicate # "ok"
    \/ /\ p.stderr = <<>>
       /\ IF c.command = "ping"
          THEN parse_ping_output(decode(p.stdout)) = None
          ELSE LET tracert_data == parse_tracert_output(decode(p.stdout))
               IN  tracert_data = None \/ tracert_data[1] = <<>>

\* C8: run_diagnostic never raises into the session: when it returns, the
\* session goes on to send on the same connection, a probe fault yields an
\* "Error:" string, and on an open connection that string is what is sent.
C8_ProbeFaultBecomesErrorResult ==
    [][/\ (pc \in {"probe", "running"} /\ pc' # pc) =>
              /\ pc' \in {"running", "send"}
              /\ conn' = conn
              /\ open' = open
              /\ cur' = cur
              /\ pc' = "send" =>
                    /\ ~run'[1].raised
                    /\ ProbeFault(cur[1], proc'[1]) => IsErrorStr(run'[1].result)
       /\ (pc = "send" /\ open /\ pc' # "send") =>
              /\ pc' = "recv"
              /\ conn' = conn
              /\ open'
              /\ Len(sent') = Len(sent) + 1
              /\ sent'[Len(sent')].result = run[1].result
              /\ sent'[Len(sent')].seq = Len(received)]_vars

\* C8 witness: the results of a failed launch and of a failed parse have been
\* sent on the first connection, which is still open and being read.
C8_Witness ==
    /\ pc = "recv"
    /\ open
    /\ attempts = 1
    /\ \E i, j \in 1..Len(sent) :
          /\ sent[i].type = "result"
          /\ sent[i].result = ErrorStr(<<"FileNotFoundError">>)
          /\ sent[j].type = "result"
          /\ sent[j].result = ErrorStr(<<"Could not parse ping output">>)

\* The fields of the report that the text shows in the shape the patterns
\* accept.
FieldsFound(r) == {f \in {"loss", "min", "max", "mean"} : r[f].shape = "ok"}

\* C9: parse_ping_output returns a record exactly when all four fields are
\* found in the text, and then the record has all four keys, each holding a
\* number read from the text; otherwise it returns None.
C9_PingAllOrNothing ==
    pstage = "done" =>
        /\ parsed # None <=> FieldsFound(report) = {"loss", "min", "max", "mean"}
        /\ parsed # None =>
              /\ DOMAIN parsed[1] = {"packet_loss", "min_rtt", "avg_rtt", "max_rtt"}
              /\ parsed[1].packet_loss = report.loss.v
              /\ parsed[1].min_rtt = report.min.v
              /\ {parsed[1].avg_rtt, parsed[1].max_rtt} = {report.max.v, report.mean.v}

\* C9 witness: only the packet loss is missing from the text, and the parser
\* has returned None.
C9_Witness ==
    /\ pstage = "done"
    /\ FieldsFound(report) = {"min", "max", "mean"}
    /\ parsed = None

\* C10: a route trace without a recognized hop line parses to the empty list
\* and run_diagnostic returns that list serialized; it returns an "Error:"
\* string for a parsed standard-output only when the parser returned None.
C10_EmptyTraceIsSuccess ==
    (/\ pc = "send"
     /\ cur[1].command = "tracert"
     /\ run[1].parser # None)
    => /\ parse_tracert_output(run[1].parser[1].arg) = Some(<<>>)
            => run[1].result = json_dumps_list(<<>>)
       /\ IsErrorStr(run[1].result) => parse_tracert_output(run[1].parser[1].arg) = None

\* C11: run_diagnostic called with a kind other than ping or tracert returns
\* an error-tagged string, has started no external process and has handed no
\* output to a parser.
C11_UnknownKindFailsFast ==
    (pstage = "done" /\ "command" \in DOMAIN report
        /\ report.command \notin {"ping", "tracert"})
    => /\ IsErrorStr(parsed[1].result)
       /\ ~parsed[1].launched
       /\ parsed[1].parser = None

\* A message process_message does not act on: its type is not "command", or
\* its command is neither tracert nor ping.
Unrecognized(message) ==
    \/ get(message, "type") # "command"
    \/ get(message, "command") \notin {"tracert", "ping"}

\* C12: taking an inbound message whose type is not "command", or whose kind
\* is neither ping nor tracert, changes nothing but the frame count: no
\* process is launched, nothing is sent, nothing is logged, and the session
\* stays in its receive loop on the same connection, which stays as it was.
C12_UnrecognizedMessageIgnored ==
    [][(/\ pc = "recv" /\ inbox # <<>> /\ handled' = handled + 1
        /\ Head(inbox).wire = "json" /\ Head(inbox).isdict
        /\ Unrecognized(Head(inbox).obj))
       => /\ pc' = "recv"
          /\ inbox' = Tail(inbox)
          /\ UNCHANGED <<is_running, config, fault, conn, attempts, open, sent, received,
                         dropped, cur, proc, run, lost, slept, log>>]_vars

\* C12 witness: two frames were taken on an open connection and nothing was
\* logged, dispatched or sent in answer, which only unrecognized messages
\* bring about.
C12_Witness ==
    /\ pc = "recv"
    /\ open
    /\ handled = 2
    /\ log = "start"
    /\ received = <<>>
    /\ sent = <<Registration>>

\* The leading numeric token of a line: the digits after its leading blanks.
LeadingToken(line) ==
    SubSeq(line, SkipWhile(line, 1, Whitespace),
           RunEnd(line, SkipWhile(line, 1, Whitespace), Digits))

\* The lines of ls that match the hop shape, in order.
RECURSIVE Matching(_)
Matching(ls) ==
    IF ls = <<>> THEN <<>>
    ELSE (IF hop_match(Head(ls)) # None THEN <<Head(ls)>> ELSE <<>>) \o Matching(Tail(ls))

\* C13: the hops of a route-trace text are its lines after the first three
\* that match the hop shape, in line order, and each hop's index is the
\* leading numeric token of its line.
C13_HopsAreMatchingLinesAfterThree ==
    (pstage = "done" /\ "lines" \in DOMAIN report)
    => LET lines == report.lines
           hoplines == Matching(SubSeq(lines, 4, Len(lines)))
       IN  /\ parsed # None
           /\ Len(parsed[1]) = Len(hoplines)
           /\ \A i \in 1..Len(hoplines) :
                  i <= Len(parsed[1]) => parsed[1][i].hop = int(LeadingToken(hoplines[i]))

\* The round-trip times among the samples xs, in order.
RECURSIVE Measured(_)
Measured(xs) ==
    IF xs = <<>> THEN <<>>
    ELSE (IF Head(xs).timeout THEN <<>> ELSE <<Head(xs).ms>>) \o Measured(Tail(xs))

\* The numeric samples of the round-trip-time field of a recognized line.
FieldSamples(line) == rtts_of(split(hop_match(line)[1].g2))

\* C14: for a recognized hop line, min/avg/max are all the wildcard marker
\* exactly when the round-trip-time field holds no numeric sample, and the
\* hop is still returned; otherwise they are the least sample, the mean and
\* the greatest sample, with min <= avg <= max and avg * count = sum.  The
\* numeric samples of the field are the round-trip times that were printed.
C14_HopStatistics ==
    (pstage = "done" /\ "samples" \in DOMAIN report /\ hop_match(hop_line(report)) # None)
    => LET xs == FieldSamples(hop_line(report))
           n == Len(xs)
       IN  /\ parsed # None
           /\ Len(parsed[1]) = 1
           /\ xs = Measured(report.samples)
           /\ LET h == parsed[1][1]
                  stats == {h.min_rtt, h.avg_rtt, h.max_rtt}
              IN  /\ PyStr(Wildcard) \in stats <=> n = 0
                  /\ n = 0 => stats = {PyStr(Wildcard)}
                  /\ n > 0 =>
                        /\ h.min_rtt[1] = "int" /\ h.max_rtt[1] = "int" /\ h.avg_rtt[1] = "float"
                        /\ \E i \in 1..n : xs[i] = h.min_rtt[2]
                        /\ \E i \in 1..n : xs[i] = h.max_rtt[2]
                        /\ \A i \in 1..n : h.min_rtt[2] <= xs[i] /\ xs[i] <= h.max_rtt[2]
                        /\ h.avg_rtt[3] > 0
                        /\ h.avg_rtt[2] * n = sum(xs) * h.avg_rtt[3]
                        /\ h.min_rtt[2] * h.avg_rtt[3] <= h.avg_rtt[2]
                        /\ h.avg_rtt[2] <= h.max_rtt[2] * h.avg_rtt[3]

\* C14 witness: a hop line with a timeout and the samples 8 and 11 was parsed:
\* minimum 8, mean 19/2, maximum 11.
C14_Witness ==
    /\ pstage = "done"
    /\ "samples" \in DOMAIN report
    /\ report.samples = <<Sample(TRUE, 0), Sample(FALSE, 8), Sample(FALSE, 11)>>
    /\ parsed # None
    /\ Len(parsed[1]) = 1
    /\ parsed[1][1].min_rtt = PyInt(8)
    /\ parsed[1][1].avg_rtt = PyFloat(19, 2)
    /\ parsed[1][1].max_rtt = PyInt(11)

\* The registration messages written to connection c so far.
RegistrationsOn(c) == {i \in 1..Len(sent) : sent[i].type = "registration" /\ sent[i].conn = c}

\* The session is in its receive loop (Active).
Active == pc \in {"recv", "probe", "running", "send"}

\* C15, as stated: on every established connection with a non-empty
\* identifier exactly one registration message is sent, once the session has
\* gone past its registration step on that connection.
C15_ExactlyOneRegistrationPerConnection ==
    config.agreement_id # <<>>
    => \A c \in 1..conn :
          (c < conn \/ pc # "register") => Cardinality(RegistrationsOn(c)) = 1

\* C15, amended: on every established connection at most one registration is
\* sent, and none only when the send found the transport closed, which takes
\* the session to the reconnect delay; the session is Active only on a
\* connection with exactly one registration sent; no inbound frame is taken
\* before it; and every result in the sent messages comes after the
\* registration of its connection.
C15_RegistrationBeforeActive ==
    [][/\ \A c \in 1..conn' : Cardinality(RegistrationsOn(c)') <= 1
       /\ (pc = "register" /\ pc' # "register" /\ config.agreement_id # <<>>)
             => \/ Cardinality(RegistrationsOn(conn)') = 1 /\ pc' = "recv"
                \/ Cardinality(RegistrationsOn(conn)') = 0 /\ ~open /\ pc' = "sleep"
       /\ Active' => Cardinality(RegistrationsOn(conn)') = 1
       /\ handled' # handled => Cardinality(RegistrationsOn(conn)) = 1
       /\ \A i \in 1..Len(sent') :
             sent'[i].type = "result"
             => \E j \in 1..(i - 1) :
                   sent'[j].type = "registration" /\ sent'[j].conn = sent'[i].conn]_vars

\* C15 witness: the session is Active on its second connection, one
\* registration was sent on each connection, and a result was sent on the
\* first one.
C15_Witness ==
    /\ Active
    /\ conn = 2
    /\ Cardinality(RegistrationsOn(1)) = 1
    /\ Cardinality(RegistrationsOn(2)) = 1
    /\ \E i \in 1..Len(sent) : sent[i].type = "result" /\ sent[i].conn = 1

\* C16: the running flag is never cleared, and with a non-empty identifier
\* every connection failure or connection loss is followed by another
\* connection attempt, however many attempts came before it (below the
\* model's bound on attempts).
C16_ReconnectsForever ==
    /\ [](is_running)
    /\ \A n \in 0..(MaxAttempts - 1) :
          (config.agreement_id # <<>> /\ lost /\ attempts = n) ~> (attempts > n)

\* C16 witness: after a failed attempt the session made a second one, which
\* was established, and it is in its receive loop.
C16_Witness ==
    /\ config.agreement_id # <<>>
    /\ attempts = 2
    /\ conn = 1
    /\ Active
    /\ is_running

\* The table entries whose prefix the identifier starts with.
MatchingPrefixes(id) == {i \in 1..Len(CITY_MAPPING) : startswith(id, CITY_MAPPING[i][1])}

\* C17: the city of an identifier is the label of a table prefix it starts
\* with than which no matching prefix is longer, and it is "Undefined"
\* exactly when the identifier starts with no table prefix.
C17_LongestPrefixWins ==
    (pstage = "done" /\ "agreement_id" \in DOMAIN report)
    => LET id == report.agreement_id
           city == parsed[1]
       IN  /\ city = "Undefined" <=> MatchingPrefixes(id) = {}
           /\ MatchingPrefixes(id) # {}
                 => \E i \in MatchingPrefixes(id) :
                       /\ city = CITY_MAPPING[i][2]
                       /\ \A k \in MatchingPrefixes(id) :
                             Len(CITY_MAPPING[k][1]) <= Len(CITY_MAPPING[i][1])
                       /\ \A k \in MatchingPrefixes(id) :
                             Len(CITY_MAPPING[k][1]) = Len(CITY_MAPPING[i][1])
                             => CITY_MAPPING[k][2] = city

\* C17 witness: 4810 starts with 48 and with 481, and its city is that of 481.
C17_Witness ==
    /\ pstage = "done"
    /\ "agreement_id" \in DOMAIN report
    /\ report.agreement_id = <<"4", "8", "1", "0">>
    /\ Cardinality(MatchingPrefixes(report.agreement_id)) = 2
    /\ parsed = Some("Michurinsk")

\* C18: whenever the transport has failed while the session is in its receive
\* loop, whatever recv() and send() raise on it, the session eventually
\* leaves the loop and makes another connection attempt (below the model's
\* bound on attempts).
C18_FailedTransportLeavesLoop ==
    \A n \in 0..(MaxAttempts - 1) :
       (Active /\ ~open /\ attempts = n) ~> (~Active /\ attempts > n)

\* Command number k has its result sent, or the send of its result failed.
Settled(k) == ResultsFor(k) # {} \/ k \in dropped

\* C19: results are sent in the order in which their commands were received;
\* at most one command is unsettled at any time, the last one received, and
\* only while its probe runs or its result is being sent; and no inbound
\* frame is taken while a command is unsettled.
C19_OneProbeAtATimeInOrder ==
    [][/\ \A i, j \in 1..Len(sent') :
             (i < j /\ sent'[i].type = "result" /\ sent'[j].type = "result")
             => sent'[i].seq < sent'[j].seq
       /\ \A k \in 1..Len(received') :
             ~Settled(k)' => (k = Len(received') /\ pc' \in {"probe", "running", "send"})
       /\ handled' # handled
             => /\ pc = "recv"
                /\ cur = None
                /\ \A k \in 1..Len(received) : Settled(k)]_vars

\* C19 witness: two commands arrived on one connection and both results were
\* sent on it, the first command's first.
C19_Witness ==
    /\ pc = "recv"
    /\ Len(received) = 2
    /\ received[1].conn = received[2].conn
    /\ \E i, j \in 1..Len(sent) :
          /\ i < j
          /\ sent[i].type = "result" /\ sent[i].seq = 1
          /\ sent[j].type = "result" /\ sent[j].seq = 2
          /\ sent[i].conn = received[1].conn /\ sent[j].conn = received[2].conn

\* C20: every result in the sent messages was written to the connection on
\* which its command was received; a command whose result could not be sent
\* has no result among the sent messages, then or later; and the session
\* carries no command or result from one connection into the next attempt.
C20_ResultOnlyOnItsConnection ==
    /\ \A i \in 1..Len(sent) :
          sent[i].type = "result"
          => /\ sent[i].seq \in 1..Len(received)
             /\ sent[i].conn = received[sent[i].seq].conn
    /\ \A k \in dropped : ResultsFor(k) = {}
    /\ pc \in {"connect", "sleep", "register"} => (cur = None /\ run = None)

\* C20 witness: the result of a command received on the first connection
\* could not be sent; the session is on its second connection, where it
\* received another command and sent that one's result, and nothing was sent
\* for the first command.
C20_Witness ==
    /\ conn = 2
    /\ pc = "recv"
    /\ Len(received) = 2
    /\ received[1].conn = 1 /\ received[2].conn = 2
    /\ dropped = {1}
    /\ ResultsFor(1) = {}
    /\ \E i \in ResultsFor(2) : sent[i].conn = 2

=============================================================================
